---- MODULE Spec2Model ----
(***************************************************************************)
(* A model of kagutils.py: the extension registry, load_file, load_zip and *)
(* the recursive directory walker load_inputs, over an explicit model of   *)
(* the filesystem, the caller's namespace and the console.                 *)
(*                                                                         *)
(* A file name is the sequence of its dot-separated components             *)
(* (<<"data","csv">> is data.csv), a path is a sequence of file names      *)
(* below the input directory (<<>> is the input directory itself).         *)
(***************************************************************************)
EXTENDS Integers, Sequences, FiniteSets, TLC

VARIABLES
    fs,            \* the filesystem below input_dir: path -> node
    listing,       \* the order in which each directory lists its entries
    scope,         \* the caller's namespace: key -> value
    file_loaders,  \* the registry: extension -> loader
    stack,         \* the active load_inputs calls, outermost first
    quiet,         \* the quiet argument of the running call
    out,           \* the lines printed by the running (or last) top-level call
    pc,            \* "idle", "running", or how the last call ended
    calls,         \* number of finished top-level calls
    trace,         \* what the running (or last) top-level call did to each file
    scope0,        \* the namespace at the start of that call
    fs0,           \* the filesystem at the start of that call
    results,       \* the namespace at the end of each finished call
    registered,    \* the assignments made to file_loaders, oldest first
    ret,           \* the last direct call of another function and its result
    mode,          \* the permission bits of the files that have any: path -> bits
    os_type        \* what platform.system() answers

vars == <<fs, listing, scope, file_loaders, stack, quiet, out, pc,
          calls, trace, scope0, fs0, results, registered, ret, mode, os_type>>

\* What load_inputs never touches.
side == <<registered, ret, mode, os_type>>

(***************************************************************************)
(* Bounds of the model                                                     *)
(***************************************************************************)
MaxRootFiles == 2
MaxCalls == 2
MaxNest == 1

\* Assignments made by hand to file_loaders.
MaxRegs == 2

(***************************************************************************)
(* Strings, names and paths                                                *)
(***************************************************************************)
Front(s) == SubSeq(s, 1, Len(s) - 1)

Last(s) == s[Len(s)]

RECURSIVE Join(_)
Join(name) ==
    IF Len(name) = 0 THEN ""
    ELSE IF Len(name) = 1 THEN name[1]
    ELSE Join(Front(name)) \o "." \o Last(name)

RECURSIVE PathStr(_)
PathStr(p) ==
    IF Len(p) = 0 THEN "/kaggle/input"
    ELSE PathStr(Front(p)) \o "/" \o Join(Last(p))

\* os.path.splitext on a file name: <<root, extension>>.  The extension
\* starts at the last dot, unless only dots precede it.
splitext(name) ==
    IF Len(name) >= 2 /\ \E i \in 1..(Len(name) - 1) : name[i] # ""
    THEN <<Front(name), "." \o Last(name)>>
    ELSE <<name, "">>

\* os.path.splitext on a path acts on its last component.
splitext_path(p) ==
    <<Front(p) \o <<splitext(Last(p))[1]>>, splitext(Last(p))[2]>>

\* filename.endswith('.zip')
endswith_zip(name) == Len(name) >= 2 /\ Last(name) = "zip"

(***************************************************************************)
(* Filesystem nodes and file contents                                      *)
(***************************************************************************)
NoMembers == [p \in {} |-> 0]

NoData == [fmt |-> "none", text |-> "", members |-> NoMembers]

DirNode == [type |-> "dir", data |-> NoData]

Text(t) == [fmt |-> "text", text |-> t, members |-> NoMembers]

Zip(m) == [fmt |-> "zip", text |-> "", members |-> m]

FileNode(d) == [type |-> "file", data |-> d]

IsDir(fsys, p) == p \in DOMAIN fsys /\ fsys[p].type = "dir"

IsFile(fsys, p) == p \in DOMAIN fsys /\ fsys[p].type = "file"

Files(fsys) == {p \in DOMAIN fsys : fsys[p].type = "file"}

Children(fsys, d) ==
    {p \in DOMAIN fsys : Len(p) = Len(d) + 1 /\ SubSeq(p, 1, Len(d)) = d}

IsPrefix(d, p) == Len(d) <= Len(p) /\ SubSeq(p, 1, Len(d)) = d

(***************************************************************************)
(* Loaded values                                                           *)
(***************************************************************************)
Value(k, s) == [kind |-> k, src |-> s]

None == Value("NoneType", "")

Returned(v) == [ok |-> TRUE, val |-> v]

Raised == [ok |-> FALSE, val |-> None]

\* pd.read_csv: an empty file or binary data raises, any other text parses.
load_csv(fsys, p) ==
    LET d == fsys[p].data
    IN  IF d.fmt = "text" /\ d.text # "" /\ d.text # "garbage"
        THEN Returned(Value("DataFrame", d.text))
        ELSE Raised

\* json.load: the value of the document, whatever its top-level kind.
load_json(fsys, p) ==
    LET d == fsys[p].data
    IN  IF d.fmt = "text" /\ d.text = "{dict}" THEN Returned(Value("dict", d.text))
        ELSE IF d.fmt = "text" /\ d.text = "[list]" THEN Returned(Value("list", d.text))
        ELSE IF d.fmt = "text" /\ d.text = "null" THEN Returned(None)
        ELSE Raised

\* sqlite3.connect: a handle on the path; the content is not read.
load_sqlite(fsys, p) == Returned(Value("Connection", PathStr(p)))

(***************************************************************************)
(* load_zip: zipfile.ZipFile(filepath).extractall(extract_dir)             *)
(***************************************************************************)
\* The path a member is written to.
Target(dir, rp) == dir \o rp

\* The directories extractall makes sure exist for the members S.
NeededDirs(dir, m, S) ==
    UNION {{SubSeq(Target(dir, rp), 1, k) :
               k \in Len(dir)..(Len(dir) + Len(rp) - 1)} : rp \in S}
    \cup {Target(dir, rp) : rp \in {x \in S : m[x].type = "dir"}}

\* A member cannot be written: one of its upper directories is a file,
\* or its own path is taken by a node of the other type.
Blocked(fsys, dir, m, rp) ==
    \/ \E k \in 0..(Len(dir) + Len(rp) - 1) :
          IsFile(fsys, SubSeq(Target(dir, rp), 1, k))
    \/ m[rp].type = "file" /\ IsDir(fsys, Target(dir, rp))
    \/ m[rp].type = "dir" /\ IsFile(fsys, Target(dir, rp))

\* The filesystem after the members S are written below dir: missing
\* directories are created, a member file replaces whatever file is there.
Extracted(fsys, dir, m, S) ==
    LET files == {rp \in S : m[rp].type = "file"}
        paths == DOMAIN fsys \cup NeededDirs(dir, m, S)
                             \cup {Target(dir, rp) : rp \in files}
    IN  [p \in paths |->
            IF \E rp \in files : Target(dir, rp) = p
            THEN FileNode(m[CHOOSE rp \in files : Target(dir, rp) = p].data)
            ELSE IF p \in DOMAIN fsys THEN fsys[p]
            ELSE DirNode]

\* The extract_dir argument of load_zip: None, or a directory path.
NoTarget == [given |-> FALSE, dir |-> <<>>]

Given(dir) == [given |-> TRUE, dir |-> dir]

\* The outcomes of load_zip(filepath, extract_dir): [ok, dir, fs].  With no
\* target given the archive is extracted beside itself, into its path
\* without extension.  A file that is no archive raises before anything is
\* written; a blocked member raises after some of the other members were
\* written.  Nothing is created for an archive without members.
load_zip_into(fsys, filepath, target) ==
    LET extract_dir == IF target.given THEN target.dir
                       ELSE splitext_path(filepath)[1]
        d == fsys[filepath].data
        m == d.members
        blocked == {rp \in DOMAIN m : Blocked(fsys, extract_dir, m, rp)}
    IN  IF d.fmt # "zip"
        THEN {[ok |-> FALSE, dir |-> extract_dir, fs |-> fsys]}
        ELSE IF blocked = {}
        THEN {[ok |-> TRUE, dir |-> extract_dir,
               fs |-> Extracted(fsys, extract_dir, m, DOMAIN m)]}
        ELSE {[ok |-> FALSE, dir |-> extract_dir,
               fs |-> Extracted(fsys, extract_dir, m, S)] :
                 S \in SUBSET (DOMAIN m \ blocked)}

\* load_zip(filepath), as load_inputs and the registry call it.
load_zip_outcomes(fsys, filepath) == load_zip_into(fsys, filepath, NoTarget)

(***************************************************************************)
(* The registry and load_file                                              *)
(***************************************************************************)
InitialLoaders ==
    [e \in {".csv", ".json", ".sqlite", ".zip"} |->
        CASE e = ".csv" -> "load_csv"
          [] e = ".json" -> "load_json"
          [] e = ".sqlite" -> "load_sqlite"
          [] e = ".zip" -> "load_zip"]

\* A loader a caller adds to the registry: the text of a file, as a str.
load_text(fsys, p) ==
    IF fsys[p].data.fmt = "text"
    THEN Returned(Value("str", fsys[p].data.text))
    ELSE Raised

\* What calling a registered loader on a path does: [ok, val, fs].
Invoke(loader, fsys, filepath) ==
    CASE loader = "load_csv" ->
            {[ok |-> load_csv(fsys, filepath).ok,
              val |-> load_csv(fsys, filepath).val, fs |-> fsys]}
      [] loader = "load_json" ->
            {[ok |-> load_json(fsys, filepath).ok,
              val |-> load_json(fsys, filepath).val, fs |-> fsys]}
      [] loader = "load_sqlite" ->
            {[ok |-> TRUE, val |-> load_sqlite(fsys, filepath).val, fs |-> fsys]}
      [] loader = "load_text" ->
            {[ok |-> load_text(fsys, filepath).ok,
              val |-> load_text(fsys, filepath).val, fs |-> fsys]}
      [] loader = "load_zip" ->
            {[ok |-> o.ok,
              val |-> IF o.ok THEN Value("str", PathStr(o.dir)) ELSE None,
              fs |-> o.fs] : o \in load_zip_outcomes(fsys, filepath)}

\* load_file that raises for an extension without a loader.
load_file_outcomes_strict(loaders, fsys, filepath) ==
    LET ext == splitext_path(filepath)[2]
    IN  IF ext \in DOMAIN loaders
        THEN {[ok |-> o.ok, val |-> o.val, fs |-> o.fs, printed |-> <<>>] :
                 o \in Invoke(loaders[ext], fsys, filepath)}
        ELSE {[ok |-> FALSE, val |-> None, fs |-> fsys, printed |-> <<>>]}

\* str.lower on the extensions of the model.
Lower(ext) ==
    CASE ext = ".CSV" -> ".csv"
      [] ext = ".TXT" -> ".txt"
      [] ext = ".JSON" -> ".json"
      [] OTHER -> ext

\* load_file that looks the lower-cased extension up.
load_file_outcomes_lower(loaders, fsys, filepath) ==
    LET ext == Lower(splitext_path(filepath)[2])
    IN  IF ext \in DOMAIN loaders
        THEN {[ok |-> o.ok, val |-> o.val, fs |-> o.fs, printed |-> <<>>] :
                 o \in Invoke(loaders[ext], fsys, filepath)}
        ELSE {[ok |-> TRUE, val |-> None, fs |-> fsys,
               printed |-> <<[msg |-> "Unsupported file type", key |-> ext,
                              kind |-> "", file |-> ""]>>]}

\* The outcomes of load_file(filepath): [ok, val, fs, printed].  An
\* extension without a loader prints a line and returns None.
load_file_outcomes(loaders, fsys, filepath) ==
    LET ext == splitext_path(filepath)[2]
    IN  IF ext \in DOMAIN loaders
        THEN {[ok |-> o.ok, val |-> o.val, fs |-> o.fs, printed |-> <<>>] :
                 o \in Invoke(loaders[ext], fsys, filepath)}
        ELSE {[ok |-> TRUE, val |-> None, fs |-> fsys,
               printed |-> <<[msg |-> "Unsupported file type", key |-> ext,
                              kind |-> "", file |-> ""]>>]}

(***************************************************************************)
(* os.walk: the order in which a directory lists its entries is arbitrary, *)
(* but every later listing of the directory keeps the order of the entries *)
(* already listed.                                                         *)
(***************************************************************************)
RECURSIVE Perms(_)
Perms(S) ==
    IF S = {} THEN {<<>>}
    ELSE UNION {{<<x>> \o t : t \in Perms(S \ {x})} : x \in S}

Range(s) == {s[i] : i \in DOMAIN s}

IndexOf(s, x) == CHOOSE i \in DOMAIN s : s[i] = x

KeepsOrder(s, old) ==
    \A i, j \in DOMAIN s :
        (i < j /\ s[i] \in Range(old) /\ s[j] \in Range(old))
            => IndexOf(old, s[i]) < IndexOf(old, s[j])

NeverListed == [files |-> <<>>, dirs |-> <<>>]

Listed(lst, d) == IF d \in DOMAIN lst THEN lst[d] ELSE NeverListed

\* os.scandir(d), split by os.walk into subdirectories and other entries.
Scans(fsys, lst, d) ==
    LET subdirs == {Last(p) : p \in {c \in Children(fsys, d) : fsys[c].type = "dir"}}
        nondirs == {Last(p) : p \in {c \in Children(fsys, d) : fsys[c].type = "file"}}
    IN  {[files |-> f, dirs |-> s] :
            f \in {x \in Perms(nondirs) : KeepsOrder(x, Listed(lst, d).files)},
            s \in {x \in Perms(subdirs) : KeepsOrder(x, Listed(lst, d).dirs)}}

Remember(lst, d, o) ==
    [x \in DOMAIN lst \cup {d} |-> IF x = d THEN o ELSE lst[x]]

(***************************************************************************)
(* load_inputs                                                             *)
(***************************************************************************)
\* One running load_inputs call: the directory os.walk is in, the files of
\* it still to process, the directories os.walk still has to visit, and
\* the call's found_files flag.
NewFrame(input_dir) ==
    [dir |-> input_dir, files |-> <<>>, pending |-> <<input_dir>>, found |-> FALSE]

Top == stack[Len(stack)]

SetTop(f) == [stack EXCEPT ![Len(stack)] = f]

Line(m, k, t, f) == [msg |-> m, key |-> k, kind |-> t, file |-> f]

NoInputLines ==
    << Line("No input files found in the directory.", "", "", ""),
       Line("Did you forget to add inputs to this notebook?", "", "", ""),
       Line("To add inputs, go to 'File' -> 'Add inputs'.", "", "", "") >>

Event(e, p, v) == [ev |-> e, path |-> p, val |-> v]

\* FileKey as the docstring of load_inputs words it: '_df' appended.
FileKey_appended(filename, data) ==
    LET file_key == Join(splitext(filename)[1])
    IN  IF data.kind = "DataFrame" THEN file_key \o "_df"
        ELSE IF data.kind = "dict" THEN file_key \o "_dict"
        ELSE file_key

\* FileKey without the naming by kind.
FileKey_plain(filename, data) == Join(splitext(filename)[1])

\* The variable name a loaded value is bound to.
FileKey(filename, data) ==
    LET file_key == Join(splitext(filename)[1])
    IN  IF data.kind = "DataFrame" THEN "df_" \o file_key
        ELSE IF data.kind = "dict" THEN file_key \o "_dict"
        ELSE file_key

\* Bind into a fresh namespace: the caller's other keys are dropped.
Bind_fresh(sc, file_key, data) == [k \in {file_key} |-> data]

\* Bind that keeps a key already bound (scope.setdefault).
Bind_setdefault(sc, file_key, data) ==
    [k \in DOMAIN sc \cup {file_key} |-> IF k \in DOMAIN sc THEN sc[k] ELSE data]

\* scope[file_key] = data
Bind(sc, file_key, data) ==
    [k \in DOMAIN sc \cup {file_key} |-> IF k = file_key THEN data ELSE sc[k]]

\* An exception leaves every running load_inputs call at once.
Raise(fsys, printed, event) ==
    /\ fs' = fsys
    /\ out' = out \o printed
    /\ trace' = Append(trace, event)
    /\ stack' = <<>>
    /\ pc' = "failed"
    /\ calls' = calls + 1
    /\ results' = Append(results, scope)
    /\ UNCHANGED <<listing, scope, file_loaders, quiet, scope0, fs0>>

\* load_inputs(input_dir, scope, quiet) is called from the notebook.
Call(q) ==
    /\ pc # "running"
    /\ calls < MaxCalls
    /\ UNCHANGED side
    /\ pc' = "running"
    /\ quiet' = q
    /\ stack' = <<NewFrame(<<>>)>>
    /\ out' = <<>>
    /\ trace' = <<>>
    /\ scope0' = scope
    /\ fs0' = fs
    /\ UNCHANGED <<fs, listing, scope, file_loaders, calls, results>>

\* The for loop over os.walk asks for the next directory.
NextDir ==
    /\ pc = "running"
    /\ UNCHANGED side
    /\ Top.files = <<>>
    /\ Top.pending # <<>>
    /\ LET d == Head(Top.pending)
       IN  IF ~IsDir(fs, d)
           THEN /\ stack' = SetTop([Top EXCEPT !.pending = Tail(@)])
                /\ UNCHANGED listing
           ELSE \E o \in Scans(fs, listing, d) :
                /\ listing' = Remember(listing, d, o)
                /\ stack' = SetTop(
                      [dir |-> d,
                       files |-> o.files,
                       pending |-> [i \in 1..Len(o.dirs) |-> d \o <<o.dirs[i]>>]
                                       \o Tail(Top.pending),
                       found |-> Top.found \/ o.files # <<>>])
    /\ UNCHANGED <<fs, scope, file_loaders, quiet, out, pc, calls, trace,
                   scope0, fs0, results>>

\* The loop body for a file that is no archive.
LoadRegular ==
    /\ pc = "running"
    /\ UNCHANGED side
    /\ Top.files # <<>>
    /\ ~endswith_zip(Head(Top.files))
    /\ LET filename == Head(Top.files)
           filepath == Top.dir \o <<filename>>
       IN  \E o \in load_file_outcomes(file_loaders, fs, filepath) :
             IF ~o.ok
             THEN Raise(o.fs, o.printed, Event("raise", filepath, None))
             ELSE /\ fs' = o.fs
                  /\ trace' = Append(trace, Event("load", filepath, o.val))
                  /\ stack' = SetTop([Top EXCEPT !.files = Tail(@)])
                  /\ IF o.val # None
                     THEN /\ scope' = Bind(scope, FileKey(filename, o.val), o.val)
                          /\ out' = out \o o.printed \o
                                (IF ~quiet
                                 THEN <<Line("Loaded", FileKey(filename, o.val),
                                             o.val.kind, Join(filename))>>
                                 ELSE <<>>)
                     ELSE /\ scope' = scope
                          /\ out' = out \o o.printed
                  /\ UNCHANGED <<listing, file_loaders, quiet, pc, calls,
                                 scope0, fs0, results>>

\* ExpandArchive without the recursive call on the extracted directory.
ExpandArchive_extract_only ==
    /\ pc = "running"
    /\ UNCHANGED side
    /\ Top.files # <<>>
    /\ endswith_zip(Head(Top.files))
    /\ LET filename == Head(Top.files)
           filepath == Top.dir \o <<filename>>
       IN  \E o \in load_zip_outcomes(fs, filepath) :
             IF ~o.ok
             THEN Raise(o.fs, <<>>, Event("raise", filepath, None))
             ELSE /\ fs' = o.fs
                  /\ trace' = Append(trace, Event("expand", filepath, None))
                  /\ stack' = SetTop([Top EXCEPT !.files = Tail(@)])
                  /\ UNCHANGED <<listing, scope, file_loaders, quiet, out, pc,
                                 calls, scope0, fs0, results>>

\* ExpandArchive that goes through load_file, and so through the registry:
\* an archive is expanded only if ".zip" still has the loader load_zip.
ExpandArchive_registry ==
    /\ pc = "running"
    /\ UNCHANGED side
    /\ Top.files # <<>>
    /\ endswith_zip(Head(Top.files))
    /\ LET filename == Head(Top.files)
           filepath == Top.dir \o <<filename>>
           expands == ".zip" \in DOMAIN file_loaders
                        /\ file_loaders[".zip"] = "load_zip"
       IN  \E o \in load_file_outcomes(file_loaders, fs, filepath) :
             IF ~o.ok
             THEN Raise(o.fs, o.printed, Event("raise", filepath, None))
             ELSE /\ fs' = o.fs
                  /\ out' = out \o o.printed
                  /\ trace' = Append(trace,
                        Event(IF expands THEN "expand" ELSE "load", filepath, None))
                  /\ stack' = IF expands
                              THEN Append(SetTop([Top EXCEPT !.files = Tail(@)]),
                                          NewFrame(splitext_path(filepath)[1]))
                              ELSE SetTop([Top EXCEPT !.files = Tail(@)])
                  /\ UNCHANGED <<listing, scope, file_loaders, quiet, pc,
                                 calls, scope0, fs0, results>>

\* The loop body for an archive: extract it and call load_inputs on the
\* directory it was extracted to.
ExpandArchive ==
    /\ pc = "running"
    /\ UNCHANGED side
    /\ Top.files # <<>>
    /\ endswith_zip(Head(Top.files))
    /\ LET filename == Head(Top.files)
           filepath == Top.dir \o <<filename>>
       IN  \E o \in load_zip_outcomes(fs, filepath) :
             IF ~o.ok
             THEN Raise(o.fs, <<>>, Event("raise", filepath, None))
             ELSE /\ fs' = o.fs
                  /\ trace' = Append(trace, Event("expand", filepath, None))
                  /\ stack' = Append(SetTop([Top EXCEPT !.files = Tail(@)]),
                                     NewFrame(o.dir))
                  /\ UNCHANGED <<listing, scope, file_loaders, quiet, out, pc,
                                 calls, scope0, fs0, results>>

\* Return that prints the final notice whatever quiet says.
Return_loud ==
    /\ pc = "running"
    /\ UNCHANGED side
    /\ Top.files = <<>>
    /\ Top.pending = <<>>
    /\ out' = IF ~Top.found THEN out \o NoInputLines ELSE out
    /\ stack' = Front(stack)
    /\ IF Len(stack) = 1
       THEN /\ pc' = "done"
            /\ calls' = calls + 1
            /\ results' = Append(results, scope)
       ELSE UNCHANGED <<pc, calls, results>>
    /\ UNCHANGED <<fs, listing, scope, file_loaders, quiet, trace, scope0, fs0>>

\* os.walk is exhausted: the final notice, and the call returns.
Return ==
    /\ pc = "running"
    /\ UNCHANGED side
    /\ Top.files = <<>>
    /\ Top.pending = <<>>
    /\ out' = IF ~Top.found /\ ~quiet THEN out \o NoInputLines ELSE out
    /\ stack' = Front(stack)
    /\ IF Len(stack) = 1
       THEN /\ pc' = "done"
            /\ calls' = calls + 1
            /\ results' = Append(results, scope)
       ELSE UNCHANGED <<pc, calls, results>>
    /\ UNCHANGED <<fs, listing, scope, file_loaders, quiet, trace, scope0, fs0>>

(***************************************************************************)
(* The registry as an extension point: file_loaders[ext] = loader, done by *)
(* the caller between load passes.                                         *)
(***************************************************************************)
Registration(ext, loader) == [ext |-> ext, loader |-> loader]

\* Registration that keeps a loader already there (setdefault).
Register_first(ext, loader) ==
    /\ pc # "running"
    /\ Len(registered) < MaxRegs
    /\ file_loaders' = [e \in DOMAIN file_loaders \cup {ext} |->
                           IF e \in DOMAIN file_loaders THEN file_loaders[e]
                           ELSE loader]
    /\ registered' = Append(registered, Registration(ext, loader))
    /\ UNCHANGED <<fs, listing, scope, stack, quiet, out, pc, calls, trace,
                   scope0, fs0, results, ret, mode, os_type>>

\* file_loaders[ext] = loader
Register(ext, loader) ==
    /\ pc # "running"
    /\ Len(registered) < MaxRegs
    /\ file_loaders' = [e \in DOMAIN file_loaders \cup {ext} |->
                           IF e = ext THEN loader ELSE file_loaders[e]]
    /\ registered' = Append(registered, Registration(ext, loader))
    /\ UNCHANGED <<fs, listing, scope, stack, quiet, out, pc, calls, trace,
                   scope0, fs0, results, ret, mode, os_type>>

\* del file_loaders[ext]
Unregister(ext) ==
    /\ pc # "running"
    /\ Len(registered) < MaxRegs
    /\ ext \in DOMAIN file_loaders
    /\ file_loaders' = [e \in DOMAIN file_loaders \ {ext} |-> file_loaders[e]]
    /\ registered' = Append(registered, Registration(ext, "del"))
    /\ UNCHANGED <<fs, listing, scope, stack, quiet, out, pc, calls, trace,
                   scope0, fs0, results, ret, mode, os_type>>

(***************************************************************************)
(* The input directories and namespaces the model starts from              *)
(***************************************************************************)
DataCsv == <<"data", "csv">>
MetaJson == <<"meta", "json">>
DataSqlite == <<"data", "sqlite">>
NotesTxt == <<"notes", "txt">>
PlainB == <<"b">>
BZip == <<"b", "zip">>
InnerZip == <<"inner", "zip">>
SubDir == <<"sub">>

OneMember(name, data) == [p \in {<<name>>} |-> FileNode(data)]

FlatArchives == {NoMembers, OneMember(DataCsv, Text("tableA"))}

RECURSIVE Archives(_)
Archives(n) ==
    IF n = 0 THEN FlatArchives
    ELSE Archives(n - 1)
         \cup {OneMember(InnerZip, Zip(z)) : z \in Archives(n - 1)}

Candidate(name, data) == [name |-> name, data |-> data]

RootCandidates ==
    {Candidate(DataCsv, Text(t)) : t \in {"tableA", ""}}
    \cup {Candidate(MetaJson, Text(t)) : t \in {"{dict}", "[list]", "null"}}
    \cup {Candidate(DataSqlite, Text("sqlite")), Candidate(NotesTxt, Text("prose")),
          Candidate(PlainB, Text("prose")), Candidate(BZip, Text("garbage"))}
    \cup {Candidate(BZip, Zip(z)) : z \in Archives(MaxNest)}

RECURSIVE Picks(_)
Picks(k) ==
    IF k = 0 THEN {{}}
    ELSE LET P == Picks(k - 1)
         IN  P \cup {x[1] \cup {x[2]} :
                        x \in {y \in P \X RootCandidates :
                                  \A c \in y[1] : c.name # y[2].name}}

\* A directory holding the files R, and beside them maybe a directory b
\* (where b.zip is extracted to) or a directory sub, with a data.csv in it.
Tree(R, extra) ==
    LET dirs == {<<>>} \cup {<<d>> : d \in extra}
        below == {<<d, DataCsv>> : d \in extra}
    IN  [p \in dirs \cup below \cup {<<c.name>> : c \in R} |->
            IF p \in dirs THEN DirNode
            ELSE IF p \in below THEN FileNode(Text("tableB"))
            ELSE FileNode((CHOOSE c \in R : <<c.name>> = p).data)]

InitTrees ==
    {Tree(x[1], x[2]) :
        x \in {y \in Picks(MaxRootFiles) \X {{}, {PlainB}, {SubDir}} :
                  \A c \in y[1] : c.name \notin y[2]}}

EmptyScope == [k \in {} |-> None]

NoCall == [fn |-> "none"]

NoModes == [p \in {} |-> 0]

\* Nothing registered by hand, no other function called.
InitSide ==
    /\ registered = <<>>
    /\ ret = NoCall
    /\ mode = NoModes
    /\ os_type = "Linux"

InitScopes ==
    { EmptyScope,
      [k \in {"df_data", "np"} |-> Value("str", "caller's " \o k)] }

Init ==
    /\ fs \in InitTrees
    /\ listing = [d \in {} |-> NeverListed]
    /\ scope \in InitScopes
    /\ file_loaders = InitialLoaders
    /\ stack = <<>>
    /\ quiet = FALSE
    /\ out = <<>>
    /\ pc = "idle"
    /\ calls = 0
    /\ trace = <<>>
    /\ scope0 = scope
    /\ fs0 = fs
    /\ results = <<>>
    /\ InitSide

Next ==
    \/ \E q \in BOOLEAN : Call(q)
    \/ NextDir
    \/ LoadRegular
    \/ ExpandArchive
    \/ Return

Spec == Init /\ [][Next]_vars

(***************************************************************************)
(* The registry extended by the caller, on directories with an extension   *)
(* in capitals, an extension without a built-in loader, and no file at all *)
(***************************************************************************)
TableCSV == <<"table", "CSV">>

RegCandidates ==
    { Candidate(DataCsv, Text("tableA")), Candidate(TableCSV, Text("tableB")),
      Candidate(NotesTxt, Text("prose")) }

\* A directory holding the files R, and the empty directories in dirs.
RegTree(R, dirs) ==
    [p \in {<<>>} \cup {<<d>> : d \in dirs} \cup {<<c.name>> : c \in R} |->
        IF \E c \in R : <<c.name>> = p
        THEN FileNode((CHOOSE c \in R : <<c.name>> = p).data)
        ELSE DirNode]

RegTrees == {RegTree(R, dirs) : R \in SUBSET RegCandidates, dirs \in {{}, {SubDir}}}

RegExts == {".txt", ".CSV"}

RegLoaders == {"load_text", "load_csv"}

InitReg ==
    /\ fs \in RegTrees
    /\ listing = [d \in {} |-> NeverListed]
    /\ scope \in InitScopes
    /\ file_loaders = InitialLoaders
    /\ stack = <<>>
    /\ quiet = FALSE
    /\ out = <<>>
    /\ pc = "idle"
    /\ calls = 0
    /\ trace = <<>>
    /\ scope0 = scope
    /\ fs0 = fs
    /\ results = <<>>
    /\ InitSide

NextReg ==
    \/ \E ext \in RegExts, loader \in RegLoaders : Register(ext, loader)
    \/ \E q \in BOOLEAN : Call(q)
    \/ NextDir
    \/ LoadRegular
    \/ Return

SpecReg == InitReg /\ [][NextReg]_vars

(***************************************************************************)
(* load_inputs on directories with an archive, the registry entry for      *)
(* ".zip" replaced or removed by the caller                                *)
(***************************************************************************)
ZipCandidates ==
    {Candidate(BZip, Zip(z)) : z \in Archives(MaxNest)}
    \cup {Candidate(BZip, Text("garbage"))}

ZipRegTrees ==
    {Tree({a} \cup R, extra) : a \in ZipCandidates,
                               R \in {{}, {Candidate(MetaJson, Text("{dict}"))}},
                               extra \in {{}, {PlainB}}}

InitZipReg ==
    /\ fs \in ZipRegTrees
    /\ listing = [d \in {} |-> NeverListed]
    /\ scope = EmptyScope
    /\ file_loaders = InitialLoaders
    /\ stack = <<>>
    /\ quiet = FALSE
    /\ out = <<>>
    /\ pc = "idle"
    /\ calls = 0
    /\ trace = <<>>
    /\ scope0 = scope
    /\ fs0 = fs
    /\ results = <<>>
    /\ InitSide

NextZipReg ==
    \/ \E loader \in {"load_text", "load_zip"} : Register(".zip", loader)
    \/ Unregister(".zip")
    \/ \E q \in BOOLEAN : Call(q)
    \/ NextDir
    \/ LoadRegular
    \/ ExpandArchive
    \/ Return

SpecZipReg == InitZipReg /\ [][NextZipReg]_vars

(***************************************************************************)
(* load_zip called from the notebook, with and without a target directory  *)
(***************************************************************************)
Archives_in(fsys) == {p \in Files(fsys) : endswith_zip(Last(p))}

Targets == {NoTarget, Given(<<SubDir>>), Given(<<PlainB>>)}

CallLoadZip(filepath, target) ==
    /\ pc = "idle"
    /\ calls < MaxCalls
    /\ \E o \in load_zip_into(fs, filepath, target) :
          /\ fs' = o.fs
          /\ ret' = [fn |-> "load_zip", filepath |-> filepath, target |-> target,
                     ok |-> o.ok, dir |-> o.dir]
    /\ fs0' = fs
    /\ calls' = calls + 1
    /\ UNCHANGED <<listing, scope, file_loaders, stack, quiet, out, pc, trace,
                   scope0, results, registered, mode, os_type>>

NextZip ==
    \E filepath \in Archives_in(fs), target \in Targets :
        CallLoadZip(filepath, target)

SpecZip == Init /\ [][NextZip]_vars

(***************************************************************************)
(* check_missing_files                                                     *)
(***************************************************************************)
\* Required names in a list.
MaxRequired == 2

\* [file for file in required_files if file not in found_files]
RECURSIVE NotIn(_, _)
NotIn(required_files, found_files) ==
    IF required_files = <<>> THEN <<>>
    ELSE (IF Head(required_files) \in found_files THEN <<>>
          ELSE <<Head(required_files)>>)
         \o NotIn(Tail(required_files), found_files)

\* check_missing_files that looks into input_dir only, not below it.
check_missing_files_flat(required_files, fsys) ==
    NotIn(required_files, {Last(p) : p \in {q \in Files(fsys) : Len(q) = 1}})

\* The list check_missing_files returns: found_files are the filenames
\* os.walk meets anywhere below input_dir.
check_missing_files(required_files, fsys) ==
    NotIn(required_files, {Last(p) : p \in Files(fsys)})

RECURSIVE Lists(_, _)
Lists(S, n) ==
    IF n = 0 THEN {<<>>}
    ELSE Lists(S, n - 1)
         \cup {Append(l, x) : l \in Lists(S, n - 1), x \in S}

RequiredLists == Lists({DataCsv, MetaJson, PlainB}, MaxRequired)

CheckMissing(required_files, q) ==
    /\ pc = "idle"
    /\ LET missing_files == check_missing_files(required_files, fs)
       IN  /\ ret' = [fn |-> "check_missing_files", required |-> required_files,
                      quiet |-> q, ok |-> TRUE, value |-> missing_files]
           /\ out' = IF q THEN <<>>
                     ELSE IF missing_files # <<>>
                     THEN <<Line("Missing files", "", "", "")>>
                     ELSE <<Line("All required files are present.", "", "", "")>>
    /\ fs0' = fs
    /\ UNCHANGED <<fs, listing, scope, file_loaders, stack, quiet, pc, calls,
                   trace, scope0, results, registered, mode, os_type>>

NextMissing ==
    \E required_files \in RequiredLists, q \in BOOLEAN :
        CheckMissing(required_files, q)

\* The namespace has no part in check_missing_files.
InitMissing == Init /\ scope = EmptyScope

SpecMissing == InitMissing /\ [][NextMissing]_vars

(***************************************************************************)
(* kaggle.json: in these definitions the filesystem is the one below the   *)
(* home directory                                                          *)
(***************************************************************************)
KaggleJsonName == <<"kaggle", "json">>

KAGGLE_DIR == << <<"", "kaggle">> >>

KAGGLE_JSON == KAGGLE_DIR \o <<KaggleJsonName>>

\* Path.exists()
Exists(fsys, p) == p \in DOMAIN fsys

Answer(v) == [ok |-> TRUE, val |-> v]

Throws == [ok |-> FALSE, val |-> FALSE]

\* json.load on the texts of the model: what kind of value the document
\* is, and the strings it holds (a mapping's keys, a list's elements, the
\* words of a string).
Doc(k, S) == [ok |-> TRUE, kind |-> k, has |-> S]

json_load(text) ==
    CASE text = "{username, key}" -> Doc("dict", {"username", "key"})
      [] text = "{username}" -> Doc("dict", {"username"})
      [] text = "[username, key]" -> Doc("list", {"username", "key"})
      [] text = "'username key'" -> Doc("str", {"username", "key"})
      [] text = "[]" -> Doc("list", {})
      [] text = "null" -> Doc("NoneType", {})
      [] text = "5" -> Doc("int", {})
      [] OTHER -> [ok |-> FALSE, kind |-> "JSONDecodeError", has |-> {}]

\* 'x in data': key of a mapping, element of a list, part of a string; a
\* TypeError for a value that is no container.
Contains(data, x) ==
    IF data.kind \in {"dict", "list", "str"} THEN Answer(x \in data.has)
    ELSE Throws

\* validate_kaggle_json(): [ok, val].
validate_kaggle_json(fsys) ==
    IF ~Exists(fsys, KAGGLE_JSON) THEN Answer(FALSE)
    ELSE LET data == json_load(fsys[KAGGLE_JSON].data.text)
         IN  IF ~data.ok THEN Answer(FALSE)
             ELSE IF ~Contains(data, "username").ok THEN Throws
             ELSE IF ~Contains(data, "username").val THEN Answer(FALSE)
             ELSE Contains(data, "key")

\* custom_path names an existing file called kaggle.json.
CustomFound(fsys, custom_path) ==
    /\ custom_path.given
    /\ Exists(fsys, custom_path.dir)
    /\ Last(custom_path.dir) = KaggleJsonName

\* find_kaggle_json(custom_path): [ok, val, fs, mode].  The copy takes the
\* content and the permission bits of the custom file.
find_kaggle_json(fsys, modes, custom_path) ==
    IF Exists(fsys, KAGGLE_JSON)
    THEN [ok |-> TRUE, val |-> TRUE, fs |-> fsys, mode |-> modes]
    ELSE IF CustomFound(fsys, custom_path)
    THEN IF IsFile(fsys, KAGGLE_DIR)
         THEN [ok |-> FALSE, val |-> FALSE, fs |-> fsys, mode |-> modes]
         ELSE [ok |-> TRUE, val |-> TRUE,
               fs |-> [p \in DOMAIN fsys \cup {KAGGLE_DIR, KAGGLE_JSON} |->
                          IF p = KAGGLE_JSON THEN fsys[custom_path.dir]
                          ELSE IF p = KAGGLE_DIR THEN DirNode
                          ELSE fsys[p]],
               mode |-> [p \in DOMAIN modes \cup {KAGGLE_JSON} |->
                            IF p = KAGGLE_JSON THEN modes[custom_path.dir]
                            ELSE modes[p]]]
    ELSE [ok |-> TRUE, val |-> FALSE, fs |-> fsys, mode |-> modes]

\* os.access on the owner's bits.
Readable(m) == (m \div 256) % 2 = 1

Writable(m) == (m \div 128) % 2 = 1

Chmod(modes, p, m) == [modes EXCEPT ![p] = m]

\* check_kaggle_json_permissions(): [ok, val, mode].  0o600 is 384 and
\* stat.S_IREAD is 256.
check_kaggle_json_permissions(fsys, modes, os) ==
    IF ~Exists(fsys, KAGGLE_JSON)
    THEN [ok |-> TRUE, val |-> FALSE, mode |-> modes]
    ELSE IF os \in {"Linux", "Darwin"}
    THEN [ok |-> TRUE, val |-> TRUE,
          mode |-> IF modes[KAGGLE_JSON] # 384
                   THEN Chmod(modes, KAGGLE_JSON, 384) ELSE modes]
    ELSE IF os = "Windows"
    THEN [ok |-> TRUE, val |-> TRUE,
          mode |-> IF ~Readable(modes[KAGGLE_JSON]) \/ Writable(modes[KAGGLE_JSON])
                   THEN Chmod(modes, KAGGLE_JSON, 256) ELSE modes]
    ELSE [ok |-> TRUE, val |-> FALSE, mode |-> modes]

Step(name, o) == [step |-> name, ok |-> o.ok, val |-> o.val]

\* kaggle_json_utils that goes through all three steps whatever they answer.
kaggle_json_utils_all(fsys, modes, os, custom_path) ==
    LET f == find_kaggle_json(fsys, modes, custom_path)
        c == check_kaggle_json_permissions(f.fs, f.mode, os)
        v == validate_kaggle_json(f.fs)
    IN  [steps |-> << Step("find_kaggle_json", f),
                      Step("check_kaggle_json_permissions", c),
                      Step("validate_kaggle_json", v) >>,
         ok |-> f.ok /\ c.ok /\ v.ok, fs |-> f.fs, mode |-> c.mode]

\* kaggle_json_utils(custom_path): the calls it makes, in order, with what
\* each answered, and the filesystem and permission bits it leaves.
kaggle_json_utils(fsys, modes, os, custom_path) ==
    LET f == find_kaggle_json(fsys, modes, custom_path)
        c == check_kaggle_json_permissions(f.fs, f.mode, os)
        v == validate_kaggle_json(f.fs)
    IN  IF ~f.ok \/ ~f.val
        THEN [steps |-> <<Step("find_kaggle_json", f)>>,
              ok |-> f.ok, fs |-> f.fs, mode |-> f.mode]
        ELSE IF ~c.ok \/ ~c.val
        THEN [steps |-> << Step("find_kaggle_json", f),
                           Step("check_kaggle_json_permissions", c) >>,
              ok |-> c.ok, fs |-> f.fs, mode |-> c.mode]
        ELSE [steps |-> << Step("find_kaggle_json", f),
                           Step("check_kaggle_json_permissions", c),
                           Step("validate_kaggle_json", v) >>,
              ok |-> v.ok, fs |-> f.fs, mode |-> c.mode]

Downloads == <<"Downloads">>

CustomKaggle == <<Downloads, KaggleJsonName>>

CustomCreds == <<Downloads, <<"creds", "json">> >>

KaggleTexts ==
    { "{username, key}", "{username}", "[username, key]", "'username key'",
      "[]", "null", "5", "garbage" }

CustomTexts == {"{username, key}", "null"}

\* 0o600, 0o644, 0o400
KaggleModes == {384, 420, 256}

\* A home directory: ~/.kaggle absent, a directory or a file; kaggle.json
\* in it or not; Downloads with creds.json and maybe a kaggle.json.
HomeTree(kdir, kjson, cust) ==
    [p \in {<<>>, <<Downloads>>, CustomCreds}
            \cup (IF kdir = "absent" THEN {} ELSE {KAGGLE_DIR})
            \cup (IF kjson = "absent" THEN {} ELSE {KAGGLE_JSON})
            \cup (IF cust = "absent" THEN {} ELSE {CustomKaggle}) |->
        CASE p = KAGGLE_DIR ->
                IF kdir = "dir" THEN DirNode ELSE FileNode(Text("prose"))
          [] p = KAGGLE_JSON -> FileNode(Text(kjson))
          [] p = CustomKaggle -> FileNode(Text(cust))
          [] p = CustomCreds -> FileNode(Text("{username, key}"))
          [] OTHER -> DirNode]

HomeModes(fsys, m) ==
    [p \in {KAGGLE_JSON, CustomKaggle, CustomCreds} \cap DOMAIN fsys |->
        IF p = KAGGLE_JSON THEN m ELSE 420]

CustomPaths ==
    {NoTarget, Given(CustomKaggle), Given(CustomCreds),
     Given(<<SubDir, KaggleJsonName>>)}

InitKaggle ==
    /\ \E kdir \in {"absent", "dir", "file"},
          kjson \in {"absent"} \cup KaggleTexts,
          cust \in {"absent"} \cup CustomTexts,
          m \in KaggleModes :
          /\ kjson # "absent" => kdir = "dir"
          /\ fs = HomeTree(kdir, kjson, cust)
          /\ mode = HomeModes(HomeTree(kdir, kjson, cust), m)
    /\ os_type \in {"Linux", "Darwin", "Windows", "FreeBSD"}
    /\ listing = [d \in {} |-> NeverListed]
    /\ scope = EmptyScope
    /\ file_loaders = InitialLoaders
    /\ stack = <<>>
    /\ quiet = FALSE
    /\ out = <<>>
    /\ pc = "idle"
    /\ calls = 0
    /\ trace = <<>>
    /\ scope0 = scope
    /\ fs0 = fs
    /\ results = <<>>
    /\ registered = <<>>
    /\ ret = NoCall

\* What the kaggle.json functions leave alone.
KaggleFrame ==
    /\ pc = "idle"
    /\ calls < MaxCalls
    /\ calls' = calls + 1
    /\ fs0' = fs
    /\ UNCHANGED <<listing, scope, file_loaders, stack, quiet, out, pc, trace,
                   scope0, results, registered, os_type>>

FindKaggleJson(custom_path) ==
    /\ KaggleFrame
    /\ LET f == find_kaggle_json(fs, mode, custom_path)
       IN  /\ fs' = f.fs
           /\ mode' = f.mode
           /\ ret' = [fn |-> "find_kaggle_json", custom |-> custom_path,
                      ok |-> f.ok, value |-> f.val]

CheckKaggleJsonPermissions ==
    /\ KaggleFrame
    /\ LET c == check_kaggle_json_permissions(fs, mode, os_type)
       IN  /\ fs' = fs
           /\ mode' = c.mode
           /\ ret' = [fn |-> "check_kaggle_json_permissions",
                      ok |-> c.ok, value |-> c.val]

ValidateKaggleJson ==
    /\ KaggleFrame
    /\ LET v == validate_kaggle_json(fs)
       IN  /\ UNCHANGED <<fs, mode>>
           /\ ret' = [fn |-> "validate_kaggle_json", ok |-> v.ok, value |-> v.val]

KaggleJsonUtils(custom_path) ==
    /\ KaggleFrame
    /\ LET r == kaggle_json_utils(fs, mode, os_type, custom_path)
       IN  /\ fs' = r.fs
           /\ mode' = r.mode
           /\ ret' = [fn |-> "kaggle_json_utils", custom |-> custom_path,
                      ok |-> r.ok, steps |-> r.steps, mode0 |-> mode]

NextKaggle ==
    \/ \E custom_path \in CustomPaths : FindKaggleJson(custom_path)
    \/ CheckKaggleJsonPermissions
    \/ ValidateKaggleJson
    \/ \E custom_path \in CustomPaths : KaggleJsonUtils(custom_path)

SpecKaggle == InitKaggle /\ [][NextKaggle]_vars

(***************************************************************************)
(* move_or_copy_files                                                      *)
(***************************************************************************)
\* Names in the files argument.
MaxListed == 2

\* os.makedirs(d): d and the directories above it.
Makedirs(fsys, d) ==
    [p \in DOMAIN fsys \cup {SubSeq(d, 1, k) : k \in 0..Len(d)} |->
        IF p \in DOMAIN fsys THEN fsys[p] ELSE DirNode]

\* Where shutil puts src when asked for dst: inside dst if dst is a
\* directory.
RealDst(fsys, src, dst) ==
    IF IsDir(fsys, dst) THEN dst \o <<Last(src)>> ELSE dst

\* The tree at src, renamed to dst.
Renamed(fsys, src, dst) ==
    LET moved == {p \in DOMAIN fsys : IsPrefix(src, p)}
        to(p) == dst \o SubSeq(p, Len(src) + 1, Len(p))
    IN  [q \in (DOMAIN fsys \ moved) \cup {to(p) : p \in moved} |->
            IF \E p \in moved : to(p) = q
            THEN fsys[CHOOSE p \in moved : to(p) = q]
            ELSE fsys[q]]

\* shutil.move that leaves the source where it is.
shutil_move_keep(fsys, src, dst) ==
    [ok |-> TRUE,
     fs |-> [q \in DOMAIN fsys \cup {dst} |-> IF q = dst THEN fsys[src] ELSE fsys[q]]]

\* shutil.move(src, dst): [ok, fs].  Moving something onto itself does
\* nothing; a file replaces a file already there.
shutil_move(fsys, src, dst) ==
    IF src = dst THEN [ok |-> TRUE, fs |-> fsys]
    ELSE LET real_dst == RealDst(fsys, src, dst)
         IN  IF real_dst # dst /\ Exists(fsys, real_dst)
             THEN [ok |-> FALSE, fs |-> fsys]
             ELSE IF IsDir(fsys, src) /\ Exists(fsys, real_dst)
             THEN [ok |-> FALSE, fs |-> fsys]
             ELSE [ok |-> TRUE, fs |-> Renamed(fsys, src, real_dst)]

\* shutil.copy(src, dst): [ok, fs].  A directory cannot be copied, nor a
\* file onto itself.
shutil_copy(fsys, src, dst) ==
    LET real_dst == RealDst(fsys, src, dst)
    IN  IF IsDir(fsys, src) \/ real_dst = src \/ IsDir(fsys, real_dst)
        THEN [ok |-> FALSE, fs |-> fsys]
        ELSE [ok |-> TRUE,
              fs |-> [q \in DOMAIN fsys \cup {real_dst} |->
                         IF q = real_dst THEN fsys[src] ELSE fsys[q]]]

\* The for loop of move_or_copy_files: [ok, fs, printed].
RECURSIVE MoveLoop(_, _, _, _, _, _)
MoveLoop(fsys, files, src_dir, dest_dir, action, q) ==
    IF files = <<>> THEN [ok |-> TRUE, fs |-> fsys, printed |-> <<>>]
    ELSE LET file == Head(files)
             src_file == src_dir \o <<file>>
             dest_file == dest_dir \o <<file>>
             o == IF ~Exists(fsys, src_file) \/ action \notin {"move", "copy"}
                  THEN [ok |-> TRUE, fs |-> fsys]
                  ELSE IF action = "move"
                  THEN shutil_move(fsys, src_file, dest_file)
                  ELSE shutil_copy(fsys, src_file, dest_file)
             said == IF q \/ ~o.ok THEN <<>>
                     ELSE IF ~Exists(fsys, src_file)
                     THEN <<Line("File not found", "", "", Join(file))>>
                     ELSE IF action = "move"
                     THEN <<Line("Moved", "", "", Join(file))>>
                     ELSE IF action = "copy"
                     THEN <<Line("Copied", "", "", Join(file))>>
                     ELSE <<>>
             rest == MoveLoop(o.fs, Tail(files), src_dir, dest_dir, action, q)
         IN  IF ~o.ok THEN [ok |-> FALSE, fs |-> o.fs, printed |-> <<>>]
             ELSE [ok |-> rest.ok, fs |-> rest.fs, printed |-> said \o rest.printed]

\* move_or_copy_files(files, src_dir, dest_dir, action, quiet)
move_or_copy_files(fsys, files, src_dir, dest_dir, action, q) ==
    MoveLoop(IF Exists(fsys, dest_dir) THEN fsys ELSE Makedirs(fsys, dest_dir),
             files, src_dir, dest_dir, action, q)

OutDir == <<"out">>

\* The directory sub with some of data.csv and meta.json, always notes.txt
\* and maybe an empty directory b; beside it the directory out: absent,
\* empty, or holding a data.csv and a notes.txt of its own.
MoveTree(S, withB, dest) ==
    LET below == {<<SubDir, n>> : n \in S \cup {NotesTxt}}
        bdir == IF withB THEN {<<SubDir, PlainB>>} ELSE {}
        odir == IF dest = "absent" THEN {} ELSE {<<OutDir>>}
        ofiles == IF dest = "full"
                  THEN {<<OutDir, DataCsv>>, <<OutDir, NotesTxt>>} ELSE {}
    IN  [p \in {<<>>, <<SubDir>>} \cup below \cup bdir \cup odir \cup ofiles |->
            IF p \in below THEN FileNode(Text("in sub: " \o Join(Last(p))))
            ELSE IF p \in ofiles THEN FileNode(Text("in out: " \o Join(Last(p))))
            ELSE DirNode]

MoveTrees ==
    {MoveTree(S, withB, dest) : S \in SUBSET {DataCsv, MetaJson},
                                withB \in BOOLEAN,
                                dest \in {"absent", "empty", "full"}}

ListedLists == Lists({DataCsv, MetaJson, PlainB}, MaxListed)

InitMove ==
    /\ fs \in MoveTrees
    /\ listing = [d \in {} |-> NeverListed]
    /\ scope = EmptyScope
    /\ file_loaders = InitialLoaders
    /\ stack = <<>>
    /\ quiet = FALSE
    /\ out = <<>>
    /\ pc = "idle"
    /\ calls = 0
    /\ trace = <<>>
    /\ scope0 = scope
    /\ fs0 = fs
    /\ results = <<>>
    /\ InitSide

\* One call, from each of the trees.
MoveOrCopyFiles(files, src_dir, dest_dir, action, q) ==
    /\ pc = "idle"
    /\ ret = NoCall
    /\ LET r == move_or_copy_files(fs, files, src_dir, dest_dir, action, q)
       IN  /\ fs' = r.fs
           /\ out' = r.printed
           /\ ret' = [fn |-> "move_or_copy_files", files |-> files,
                      src_dir |-> src_dir, dest_dir |-> dest_dir,
                      action |-> action, quiet |-> q, ok |-> r.ok]
    /\ fs0' = fs
    /\ calls' = calls + 1
    /\ UNCHANGED <<listing, scope, file_loaders, stack, quiet, pc, trace,
                   scope0, results, registered, mode, os_type>>

NextMove ==
    \E files \in ListedLists, dest_dir \in {<<OutDir>>, <<SubDir>>},
       action \in {"move", "copy", "link"}, q \in BOOLEAN :
        MoveOrCopyFiles(files, <<SubDir>>, dest_dir, action, q)

SpecMove == InitMove /\ [][NextMove]_vars

(***************************************************************************)
(* The library variant, kaggle/usr/lib/kaggleutils.py: load_inputs without *)
(* quiet and without the final notice, its loaders and registry the same   *)
(***************************************************************************)
\* The variable name the library variant binds a loaded value to.
LibFileKey(filename, data) ==
    LET file_key == Join(splitext(filename)[1])
    IN  IF data.kind = "DataFrame" THEN file_key \o "_df"
        ELSE IF data.kind = "dict" THEN file_key \o "_dict"
        ELSE file_key

\* load_inputs(input_dir, scope) of the library is called.
LibCall ==
    /\ pc # "running"
    /\ calls < MaxCalls
    /\ UNCHANGED side
    /\ pc' = "running"
    /\ quiet' = FALSE
    /\ stack' = <<NewFrame(<<>>)>>
    /\ out' = <<>>
    /\ trace' = <<>>
    /\ scope0' = scope
    /\ fs0' = fs
    /\ UNCHANGED <<fs, listing, scope, file_loaders, calls, results>>

\* The loop body for a file that is no archive.
LibLoadRegular ==
    /\ pc = "running"
    /\ UNCHANGED side
    /\ Top.files # <<>>
    /\ ~endswith_zip(Head(Top.files))
    /\ LET filename == Head(Top.files)
           filepath == Top.dir \o <<filename>>
       IN  \E o \in load_file_outcomes(file_loaders, fs, filepath) :
             IF ~o.ok
             THEN Raise(o.fs, o.printed, Event("raise", filepath, None))
             ELSE /\ fs' = o.fs
                  /\ trace' = Append(trace, Event("load", filepath, o.val))
                  /\ stack' = SetTop([Top EXCEPT !.files = Tail(@)])
                  /\ IF o.val # None
                     THEN /\ scope' = Bind(scope, LibFileKey(filename, o.val), o.val)
                          /\ out' = out \o o.printed \o
                                <<Line("Loaded", LibFileKey(filename, o.val),
                                       o.val.kind, Join(filename))>>
                     ELSE /\ scope' = scope
                          /\ out' = out \o o.printed
                  /\ UNCHANGED <<listing, file_loaders, quiet, pc, calls,
                                 scope0, fs0, results>>

\* The loop body for an archive: load_zip extracts it, and the call of
\* load_input_data, a name the module does not define, raises NameError.
LibExpandArchive ==
    /\ pc = "running"
    /\ UNCHANGED side
    /\ Top.files # <<>>
    /\ endswith_zip(Head(Top.files))
    /\ LET filename == Head(Top.files)
           filepath == Top.dir \o <<filename>>
       IN  \E o \in load_zip_outcomes(fs, filepath) :
             IF ~o.ok
             THEN Raise(o.fs, <<>>, Event("raise", filepath, None))
             ELSE Raise(o.fs, <<>>,
                        Event("raise", filepath, Value("NameError", "load_input_data")))

\* os.walk is exhausted: the call returns.
LibReturn ==
    /\ pc = "running"
    /\ UNCHANGED side
    /\ Top.files = <<>>
    /\ Top.pending = <<>>
    /\ stack' = <<>>
    /\ pc' = "done"
    /\ calls' = calls + 1
    /\ results' = Append(results, scope)
    /\ UNCHANGED <<fs, listing, scope, file_loaders, quiet, out, trace, scope0, fs0>>

NextLib ==
    \/ LibCall
    \/ NextDir
    \/ LibLoadRegular
    \/ LibExpandArchive
    \/ LibReturn

SpecLib == Init /\ [][NextLib]_vars

(***************************************************************************)
(* Properties                                                              *)
(***************************************************************************)
Finished == pc \in {"done", "failed"}

Loads == {i \in DOMAIN trace : trace[i].ev = "load" /\ trace[i].val # None}

\* The key the naming law gives a value loaded from a file.
LawKey(filename, v) ==
    LET B == Join(splitext(filename)[1])
    IN  CASE v.kind = "DataFrame" -> "df_" \o B
          [] v.kind = "dict" -> B \o "_dict"
          [] OTHER -> B

Printed(m) == \E i \in DOMAIN out : out[i].msg = m

ArchiveRoot(c) == Tree({Candidate(BZip, Zip(OneMember(DataCsv, Text(c))))}, {})

DirectRoot(c) == Tree({Candidate(DataCsv, Text(c))}, {})

\* C2: from the same namespace, a call on a directory holding only an
\* archive of data.csv and a call on a directory holding data.csv itself
\* end with the same namespace: the one the call started with plus df_data,
\* and no entry for the archive.
ArchiveTransparency ==
    (Finished /\ fs0 \in {ArchiveRoot("tableA"), DirectRoot("tableA")})
        => /\ pc = "done"
           /\ scope = [k \in DOMAIN scope0 \cup {"df_data"} |->
                          IF k = "df_data" THEN Value("DataFrame", "tableA")
                          ELSE scope0[k]]

\* C2 witness: the call on the directory that holds only the archive has
\* ended, after expanding the archive and loading its data.csv.
ArchiveTransparencyWitness ==
    /\ pc = "done"
    /\ fs0 = ArchiveRoot("tableA")
    /\ \E i \in DOMAIN trace : trace[i].ev = "expand" /\ trace[i].path = <<BZip>>
    /\ \E i \in Loads : trace[i].path = <<PlainB, DataCsv>>
    /\ "df_data" \in DOMAIN scope

\* C3: the "No input files found" notice is printed only when the whole
\* traversal of the top-level call, recursive calls included, met no file.
SharedFoundFlag ==
    Printed("No input files found in the directory.") => trace = <<>>

\* C4: with quiet set nothing is printed during the call.
QuietPrintsNothing == (pc # "idle" /\ quiet) => out = <<>>

\* What load_file makes of the file at p, as a set: its value, if it
\* returns one other than None.
Yield(fsys, p) ==
    {o.val : o \in {x \in load_file_outcomes(file_loaders, fsys, p) :
                       x.ok /\ x.val # None}}

Loadable(fsys, p) == ~endswith_zip(Last(p)) /\ Yield(fsys, p) # {}

Keys(fsys, p) == {LawKey(Last(p), v) : v \in Yield(fsys, p)}

KeyAt(i) == LawKey(Last(trace[i].path), trace[i].val)

\* C5: a loader's failure is local: when the call ends, every loadable
\* file of the tree is bound in the namespace.
FailureIsolation ==
    Finished => \A p \in Files(fs) :
                    Loadable(fs, p) => Keys(fs, p) \subseteq DOMAIN scope

\* C6: every file that existed before the call still exists with the
\* content it had.
SourceFilesKept ==
    \A p \in Files(fs0) : p \in DOMAIN fs /\ fs[p] = fs0[p]

\* C7: a second call on the same namespace and directory ends with the
\* namespace the first call ended with.
Idempotence == Len(results) >= 2 => results[2] = results[1]

Registered(p) == splitext_path(p)[2] \in DOMAIN file_loaders

NoCollision(fsys) ==
    \A p, q \in Files(fsys) : p # q => Keys(fsys, p) \cap Keys(fsys, q) = {}

FirstCallOnEmpty == calls = 1 /\ scope0 = EmptyScope

\* C8 as stated: a tree of files with registered extensions, no two of
\* which derive the same key, loaded into an empty namespace, gives as
\* many entries as it has files.
EntryCountRegistered ==
    (pc = "done" /\ FirstCallOnEmpty /\ NoCollision(fs0)
        /\ \A p \in Files(fs0) : Registered(p))
    => Cardinality(DOMAIN scope) = Cardinality(Files(fs0))

\* C8 amended: a tree of files with registered extensions, none of them an
\* archive and each one turned by its loader into a value other than None,
\* no two of which derive the same key, loaded into an empty namespace,
\* gives one entry per file, as many entries as files.
EntryCount ==
    (Finished /\ FirstCallOnEmpty /\ NoCollision(fs0)
        /\ \A p \in Files(fs0) : Registered(p) /\ Loadable(fs0, p))
    => /\ pc = "done"
       /\ Cardinality(DOMAIN scope) = Cardinality(Files(fs0))
       /\ \A p \in Files(fs0) :
             \A v \in Yield(fs0, p) :
                 /\ LawKey(Last(p), v) \in DOMAIN scope
                 /\ scope[LawKey(Last(p), v)] = v

\* C8 witness: two such files were loaded into an empty namespace.
EntryCountWitness ==
    /\ pc = "done" /\ FirstCallOnEmpty /\ NoCollision(fs0)
    /\ \A p \in Files(fs0) : Registered(p) /\ Loadable(fs0, p)
    /\ Cardinality(Files(fs0)) = 2
    /\ Cardinality(Loads) = 2

\* C9: in every state of a call, also after a failure, every key the
\* namespace had at the start is still there, with its value unless a file
\* loaded during the call derives that key, and every new key is the key
\* of a file loaded during the call.
NamespaceFrame ==
    /\ \A k \in DOMAIN scope0 :
          /\ k \in DOMAIN scope
          /\ scope[k] # scope0[k] => \E i \in Loads : KeyAt(i) = k
    /\ \A k \in DOMAIN scope \ DOMAIN scope0 : \E i \in Loads : KeyAt(i) = k

\* C9 witness: a call that overwrote the caller's df_data was aborted by a
\* failure, and the caller's other key is untouched.
NamespaceFrameWitness ==
    /\ pc = "failed"
    /\ {"df_data", "np"} \subseteq DOMAIN scope0
    /\ scope["df_data"] # scope0["df_data"]
    /\ scope["np"] = scope0["np"]

\* The directory an archive is extracted to.
ExtractDir(p) == splitext_path(p)[1]

\* C10: the value under a key is the one of the file that derived the key
\* last in the traversal; the files of an archive are processed between
\* the archive and the next file of the archive's directory; and a raised
\* failure is always the failure of a loader.
CollisionsOverwrite ==
    /\ \A i \in Loads :
          (~\E j \in Loads : j > i /\ KeyAt(j) = KeyAt(i))
              => KeyAt(i) \in DOMAIN scope /\ scope[KeyAt(i)] = trace[i].val
    /\ \A i, j \in DOMAIN trace :
          (/\ i < j
           /\ trace[i].ev = "expand"
           /\ Front(trace[j].path) = Front(trace[i].path))
              => \A q \in Files(fs) :
                    (/\ IsPrefix(ExtractDir(trace[i].path), q)
                     /\ q # ExtractDir(trace[i].path)
                     /\ ~endswith_zip(Last(q)))
                        => \E m \in (i + 1)..(j - 1) :
                              trace[m].path = q /\ trace[m].ev = "load"
    /\ \A i \in DOMAIN trace :
          trace[i].ev = "raise"
              => IF endswith_zip(Last(trace[i].path))
                 THEN \A o \in load_zip_outcomes(fs, trace[i].path) : ~o.ok
                 ELSE \A o \in load_file_outcomes(file_loaders, fs, trace[i].path) : ~o.ok

\* C10 witness: data.csv inside the archive and data.csv in the directory
\* sub both derived df_data, the one in sub later, and its value is the
\* one bound.
CollisionsOverwriteWitness ==
    /\ pc = "done"
    /\ \E i, j \in Loads :
          /\ i < j
          /\ trace[i].path = <<PlainB, DataCsv>>
          /\ trace[j].path = <<SubDir, DataCsv>>
          /\ KeyAt(i) = KeyAt(j)
          /\ trace[i].val # trace[j].val
          /\ scope[KeyAt(j)] = trace[j].val

\* A file that is no archive and whose extension has no loader.
Unsupported(p) == ~endswith_zip(Last(p)) /\ ~Registered(p)

\* C11: a file with an unsupported extension is no failure: load_file
\* returns None for it without raising, the call goes on to the files that
\* follow with the namespace and the filesystem as they were, and when the
\* call returns the loadable files beside it have been loaded and bound.
UnsupportedSkipped ==
    [][/\ (pc = "running" /\ Top.files # <<>>
            /\ Unsupported(Top.dir \o <<Head(Top.files)>>))
          => /\ pc' = "running"
             /\ Last(trace') = Event("load", Top.dir \o <<Head(Top.files)>>, None)
             /\ Len(trace') = Len(trace) + 1
             /\ scope' = scope
             /\ fs' = fs
             /\ stack' = SetTop([Top EXCEPT !.files = Tail(@)])
       /\ pc' = "done"
          => \A i \in DOMAIN trace' :
                Unsupported(trace'[i].path)
                  => \A q \in Files(fs') :
                        (Front(q) = Front(trace'[i].path) /\ Loadable(fs', q))
                          => \E j \in DOMAIN trace' :
                                /\ trace'[j].path = q
                                /\ trace'[j].ev = "load"
                                /\ trace'[j].val \in Yield(fs', q)
                                /\ LawKey(Last(q), trace'[j].val) \in DOMAIN scope'
      ]_vars

\* C11 witness: notes.txt was met first and skipped, data.csv after it was
\* loaded and bound, and nothing is bound for notes.txt.
UnsupportedSkippedWitness ==
    /\ pc = "done"
    /\ scope0 = EmptyScope
    /\ \E i, j \in DOMAIN trace :
          /\ i < j
          /\ trace[i] = Event("load", <<NotesTxt>>, None)
          /\ trace[j] = Event("load", <<DataCsv>>, Value("DataFrame", "tableA"))
    /\ DOMAIN scope = {"df_data"}

Count(m) == Cardinality({i \in DOMAIN out : out[i].msg = m})

\* C12: a call on a tree without any file ends with the namespace it
\* started with, having printed the "No input files found" notice exactly
\* once when quiet is false and nothing at all when quiet is true.
EmptyRoot ==
    (Finished /\ Files(fs0) = {})
        => /\ pc = "done"
           /\ scope = scope0
           /\ Count("No input files found in the directory.")
                 = IF quiet THEN 0 ELSE 1
           /\ out = IF quiet THEN <<>> ELSE NoInputLines

\* C12 witness: a call without quiet on a directory that holds only an
\* empty directory has returned, the notice printed and the caller's
\* namespace as it was.
EmptyRootWitness ==
    /\ pc = "done"
    /\ fs0 = RegTree({}, {SubDir})
    /\ ~quiet
    /\ scope0 # EmptyScope
    /\ scope = scope0
    /\ out = NoInputLines

\* The file the loop body is about to process, and its extension.
HeadPath == Top.dir \o <<Head(Top.files)>>

HeadExt == splitext_path(HeadPath)[2]

AtRegular == pc = "running" /\ Top.files # <<>> /\ ~endswith_zip(Head(Top.files))

\* UNCHANGED-free description of a loop body step that got outcome o from
\* the loader: the value is recorded and bound, or the failure ends the call.
StepMatches(o) ==
    IF o.ok
    THEN /\ pc' = "running"
         /\ Last(trace') = Event("load", HeadPath, o.val)
         /\ IF o.val = None THEN scope' = scope
            ELSE /\ LawKey(Head(Top.files), o.val) \in DOMAIN scope'
                 /\ scope'[LawKey(Head(Top.files), o.val)] = o.val
    ELSE /\ pc' = "failed"
         /\ Last(trace') = Event("raise", HeadPath, None)

\* C13 as stated: the loader of a file is the one registered for its
\* lower-cased extension.
LowerCasedLookup ==
    [][(AtRegular /\ Lower(HeadExt) \in DOMAIN file_loaders)
          => \E o \in Invoke(file_loaders[Lower(HeadExt)], fs, HeadPath) :
                StepMatches(o)]_vars

\* C13 amended: the loader of a file is looked up by exact match on its
\* final extension as written: a file whose extension is not in lower case
\* gets the loader registered for that very extension, and is unsupported
\* (None, nothing bound) when there is none, whatever is registered for
\* the lower-cased extension.
CaseSensitiveLookup ==
    [][(AtRegular /\ Lower(HeadExt) # HeadExt)
          => IF HeadExt \in DOMAIN file_loaders
             THEN \E o \in Invoke(file_loaders[HeadExt], fs, HeadPath) :
                     StepMatches(o)
             ELSE /\ pc' = "running"
                  /\ Last(trace') = Event("load", HeadPath, None)
                  /\ scope' = scope]_vars

\* C13 witness: with the registry as defined, table.CSV got None and
\* data.csv beside it was loaded as a table.
CaseSensitiveLookupWitness ==
    /\ pc = "done"
    /\ registered = <<>>
    /\ \E i, j \in DOMAIN trace :
          /\ trace[i] = Event("load", <<TableCSV>>, None)
          /\ trace[j] = Event("load", <<DataCsv>>, Value("DataFrame", "tableA"))
    /\ "df_table" \notin DOMAIN scope

\* The loader the caller's assignments leave for an extension.
Assigned(reg, ext) == {i \in DOMAIN reg : reg[i].ext = ext}

Current(reg, ext) ==
    IF Assigned(reg, ext) # {}
    THEN reg[CHOOSE i \in Assigned(reg, ext) :
                 \A j \in Assigned(reg, ext) : j <= i].loader
    ELSE InitialLoaders[ext]

Known(reg) == DOMAIN InitialLoaders \cup {reg[i].ext : i \in DOMAIN reg}

\* C14: after any sequence of registrations the registry holds, for each
\* extension ever registered, exactly the loader registered for it last;
\* the loop body on a file with such an extension gets the result of that
\* loader, and binds it: also for an extension the registry did not have
\* at first.
LastRegistrationWins ==
    [][/\ DOMAIN file_loaders' = Known(registered')
       /\ \A e \in Known(registered') :
             file_loaders'[e] = Current(registered', e)
       /\ (AtRegular /\ HeadExt \in Known(registered))
             => \E o \in Invoke(Current(registered, HeadExt), fs, HeadPath) :
                   StepMatches(o)]_vars

\* C14 witness: ".txt", not in the registry at first, was registered with
\* load_csv and then with load_text; notes.txt was loaded by load_text and
\* bound as notes.
LastRegistrationWinsWitness ==
    /\ pc = "done"
    /\ registered = << Registration(".txt", "load_csv"),
                       Registration(".txt", "load_text") >>
    /\ \E i \in DOMAIN trace :
          trace[i] = Event("load", <<NotesTxt>>, Value("str", "prose"))
    /\ "notes" \in DOMAIN scope
    /\ scope["notes"] = Value("str", "prose")

\* C15: load_zip without a target returns the archive's path without its
\* final extension, with a target exactly the target; the directory it
\* returns exists after the call and holds every member of the archive
\* with the member's content.
ZipTarget ==
    (ret.fn = "load_zip" /\ ret.ok)
        => LET m == fs0[ret.filepath].data.members
           IN  /\ ret.dir = IF ret.target.given THEN ret.target.dir
                            ELSE Front(ret.filepath)
                                   \o <<Front(Last(ret.filepath))>>
               /\ IsDir(fs, ret.dir)
               /\ \A rp \in DOMAIN m :
                     /\ ret.dir \o rp \in DOMAIN fs
                     /\ fs[ret.dir \o rp] = m[rp]

\* C16: check_missing_files returns the required names that no file of
\* the tree bears, each as often and in the order it is required: the empty
\* list exactly when every required name is present; it does not raise,
\* leaves the filesystem as it was, and quiet has no part in the result.
MissingExact ==
    ret.fn = "check_missing_files"
        => LET req == ret.required
               absent == {i \in DOMAIN req :
                             \A p \in Files(fs0) : Last(p) # req[i]}
           IN  /\ ret.ok
               /\ Len(ret.value) = Cardinality(absent)
               /\ \A i \in absent :
                     ret.value[Cardinality({j \in absent : j <= i})] = req[i]
               /\ (ret.value = <<>>) <=> (absent = {})
               /\ fs = fs0

\* C16 witness: b is a directory and data.csv lies only inside it; asked
\* quietly for b and data.csv, the answer is b alone.
MissingExactWitness ==
    /\ ret.fn = "check_missing_files"
    /\ ret.quiet
    /\ fs = Tree({}, {PlainB})
    /\ ret.required = <<PlainB, DataCsv>>
    /\ ret.value = <<PlainB>>
    /\ out = <<>>

\* C17: validate_kaggle_json never raises, and answers True exactly when
\* kaggle.json exists and is a JSON mapping with the keys username and key.
ValidateTotal ==
    ret.fn = "validate_kaggle_json"
        => /\ ret.ok
           /\ ret.value <=>
                 /\ Exists(fs, KAGGLE_JSON)
                 /\ json_load(fs[KAGGLE_JSON].data.text).ok
                 /\ json_load(fs[KAGGLE_JSON].data.text).kind = "dict"
                 /\ {"username", "key"}
                       \subseteq json_load(fs[KAGGLE_JSON].data.text).has

Said(st, v) == st.ok /\ st.val = v

\* C18: kaggle_json_utils calls find_kaggle_json first; it calls
\* check_kaggle_json_permissions next exactly when find answered True, and
\* validate_kaggle_json last exactly when the permission check answered
\* True; and when kaggle.json is absent and custom_path names no existing
\* file called kaggle.json, the filesystem and the permission bits are as
\* they were.
UtilsOrder ==
    ret.fn = "kaggle_json_utils"
        => LET st == ret.steps
           IN  /\ Len(st) \in 1..3
               /\ st[1].step = "find_kaggle_json"
               /\ Len(st) >= 2 <=> Said(st[1], TRUE)
               /\ Len(st) >= 2 => st[2].step = "check_kaggle_json_permissions"
               /\ Len(st) = 3 <=> (Len(st) >= 2 /\ Said(st[2], TRUE))
               /\ Len(st) = 3 => st[3].step = "validate_kaggle_json"
               /\ Len(st) = 1 => mode = ret.mode0
               /\ (/\ ~Exists(fs0, KAGGLE_JSON)
                   /\ ~(/\ ret.custom.given
                        /\ Exists(fs0, ret.custom.dir)
                        /\ Last(ret.custom.dir) = KaggleJsonName))
                     => fs = fs0 /\ mode = ret.mode0 /\ Len(st) = 1

\* C18 witness: on Linux, kaggle.json was not in ~/.kaggle; the one from
\* Downloads was copied there, its permissions set to 600, and its content
\* validated.
UtilsOrderWitness ==
    /\ ret.fn = "kaggle_json_utils"
    /\ os_type = "Linux"
    /\ ~Exists(fs0, KAGGLE_JSON)
    /\ ret.custom = Given(CustomKaggle)
    /\ Len(ret.steps) = 3
    /\ Said(ret.steps[3], TRUE)
    /\ fs[KAGGLE_JSON] = fs0[CustomKaggle]
    /\ ret.mode0[CustomKaggle] = 420
    /\ mode[KAGGLE_JSON] = 384

Listed_(f) == \E i \in DOMAIN ret.files : ret.files[i] = f

\* Every listed name is a regular file of src_dir or absent from it, and
\* no directory of dest_dir bears a listed name.
ListedPlain ==
    \A i \in DOMAIN ret.files :
        /\ ~IsDir(fs0, ret.src_dir \o <<ret.files[i]>>)
        /\ ~IsDir(fs0, ret.dest_dir \o <<ret.files[i]>>)

\* What C19 says of a finished call.
MoveOrCopyHolds ==
    /\ ret.ok
    /\ \A i \in DOMAIN ret.files :
          LET src_file == ret.src_dir \o <<ret.files[i]>>
              dest_file == ret.dest_dir \o <<ret.files[i]>>
          IN  IsFile(fs0, src_file)
                => /\ ret.action = "move"
                      => /\ IsFile(fs, dest_file)
                         /\ fs[dest_file] = fs0[src_file]
                         /\ ~Exists(fs, src_file)
                   /\ ret.action = "copy"
                      => /\ IsFile(fs, dest_file)
                         /\ fs[dest_file] = fs0[src_file]
                         /\ IsFile(fs, src_file)
                         /\ fs[src_file] = fs0[src_file]
    /\ \A p \in DOMAIN fs0 :
          (~\E i \in DOMAIN ret.files :
                p \in {ret.src_dir \o <<ret.files[i]>>,
                       ret.dest_dir \o <<ret.files[i]>>})
             => Exists(fs, p) /\ fs[p] = fs0[p]
    /\ IsDir(fs, ret.dest_dir)
    /\ ret.action \notin {"move", "copy"}
          => /\ \A p \in DOMAIN fs0 : Exists(fs, p) /\ fs[p] = fs0[p]
             /\ Files(fs) = Files(fs0)

\* C19 as stated: after a call whose listed names are files of src_dir or
\* absent from it, every listed file that was in src_dir is in dest_dir and
\* (moved) no longer in src_dir or (copied) still in src_dir; a missing one
\* is skipped without failure; nothing else is touched; dest_dir exists;
\* another action moves and copies nothing.
MoveOrCopyAnyDirs ==
    (ret.fn = "move_or_copy_files" /\ ListedPlain) => MoveOrCopyHolds

\* C19 amended: the same, for a dest_dir other than src_dir.
MoveOrCopy ==
    (ret.fn = "move_or_copy_files" /\ ListedPlain
        /\ ret.src_dir # ret.dest_dir) => MoveOrCopyHolds

\* C19 witness: asked to move meta.json, which sub does not hold, and
\* data.csv, which it does, into the directory out, which did not exist:
\* data.csv is in out and no longer in sub.
MoveOrCopyWitness ==
    /\ ret.fn = "move_or_copy_files"
    /\ ret.ok
    /\ ret.action = "move"
    /\ ret.files = <<MetaJson, DataCsv>>
    /\ ret.dest_dir = <<OutDir>>
    /\ ~Exists(fs0, <<OutDir>>)
    /\ ~Exists(fs0, <<SubDir, MetaJson>>)
    /\ IsFile(fs0, <<SubDir, DataCsv>>)
    /\ IsFile(fs, <<OutDir, DataCsv>>)
    /\ ~Exists(fs, <<SubDir, DataCsv>>)

\* C20: in the library variant, an archive that load_zip can extract is
\* processed without a failure, the loadable members it holds are bound in
\* the scope when the call ends, and every file beside the archive is
\* processed too.
LibArchiveRecursion ==
    Finished
        => \A i \in DOMAIN trace :
              LET p == trace[i].path
              IN  (/\ endswith_zip(Last(p))
                   /\ fs0[p].data.fmt = "zip"
                   /\ \A o \in load_zip_outcomes(fs0, p) : o.ok)
                    => /\ trace[i].ev # "raise"
                       /\ \A rp \in DOMAIN fs0[p].data.members :
                             Loadable(fs, ExtractDir(p) \o rp)
                               => \A v \in Yield(fs, ExtractDir(p) \o rp) :
                                     LibFileKey(Last(rp), v) \in DOMAIN scope
                       /\ \A q \in Files(fs0) :
                             Front(q) = Front(p)
                               => \E j \in DOMAIN trace : trace[j].path = q

LoadedNotices == {i \in DOMAIN out : out[i].msg = "Loaded"}

\* C21: within one top-level call every file, members of expanded archives
\* included, is handed to a loader at most once and gets at most one
\* "Loaded" notice, and every archive is expanded at most once.
SinglePass ==
    /\ \A i, j \in DOMAIN trace : trace[i].path = trace[j].path => i = j
    /\ Cardinality(LoadedNotices) <= Cardinality({trace[i].path : i \in Loads})

AtArchive == pc = "running" /\ Top.files # <<>> /\ endswith_zip(Head(Top.files))

\* C22: whatever the registry holds for ".zip", the loop body expands
\* exactly the files whose name ends in ".zip", with load_zip itself: the
\* step is one of load_zip's outcomes, followed by the recursive call on
\* the directory load_zip returned, and binds nothing; a file with another
\* name is never expanded; a call on a directory holding only an archive
\* of data.csv binds df_data and nothing else.  What load_file does for
\* an archive does follow the registry: None when ".zip" has no loader.
ArchiveBypass ==
    [][/\ AtArchive
          => \E o \in load_zip_outcomes(fs, HeadPath) :
                /\ fs' = o.fs
                /\ scope' = scope
                /\ IF o.ok
                   THEN /\ pc' = "running"
                        /\ Last(trace') = Event("expand", HeadPath, None)
                        /\ stack' = Append(SetTop([Top EXCEPT !.files = Tail(@)]),
                                           NewFrame(o.dir))
                   ELSE /\ pc' = "failed"
                        /\ Last(trace') = Event("raise", HeadPath, None)
       /\ AtRegular
          => /\ Len(stack') <= Len(stack)
             /\ Last(trace').ev # "expand"
       /\ (pc' = "done" /\ fs0' = ArchiveRoot("tableA"))
          => scope' = [k \in DOMAIN scope0' \cup {"df_data"} |->
                          IF k = "df_data" THEN Value("DataFrame", "tableA")
                          ELSE scope0'[k]]
       /\ ".zip" \notin DOMAIN file_loaders'
          => \A p \in Archives_in(fs') :
                \A o \in load_file_outcomes(file_loaders', fs', p) :
                    o.ok /\ o.val = None /\ o.fs = fs'
      ]_vars

\* C22 witness: the entry for ".zip" was removed from the registry, and
\* the call after that expanded b.zip and bound the data.csv inside it,
\* while load_file on b.zip now answers None.
ArchiveBypassWitness ==
    /\ pc = "done"
    /\ registered = <<Registration(".zip", "del")>>
    /\ ".zip" \notin DOMAIN file_loaders
    /\ fs0 = ArchiveRoot("tableA")
    /\ \E i, j \in DOMAIN trace :
          /\ i < j
          /\ trace[i] = Event("expand", <<BZip>>, None)
          /\ trace[j] = Event("load", <<PlainB, DataCsv>>,
                              Value("DataFrame", "tableA"))
    /\ scope = [k \in {"df_data"} |-> Value("DataFrame", "tableA")]
    /\ \A o \in load_file_outcomes(file_loaders, fs, <<BZip>>) : o.val = None

====
